---- MODULE Spec2Model ----
(***************************************************************************)
(* Model of the YouTube Shorts generator.                                  *)
(*                                                                         *)
(* Spec: the acceptance pipeline of main.py, i.e. the `generate`, `auto`   *)
(* and `batch` commands together with the collaborators whose return/raise *)
(* behaviour decides the control flow (Settings.validate,                  *)
(* VideoFetcher.fetch_viral_video, VisionReviewer.verify_video_content /   *)
(* get_best_start_time / verify_final_video,                               *)
(* FactGenerator.generate_for_video / score_fact_independently,            *)
(* MusicManager, TextRenderer.render, VideoComposer.compose).              *)
(* UploadSpec: YouTubeUploader.upload with its resumable-upload retry      *)
(* loop.  FilterSpec: the description filter fetch_viral_video applies to  *)
(* the search results (PexelsClient.has_good_description).                 *)
(*                                                                         *)
(* Every collaborator call is one step; what the network, ffmpeg or the    *)
(* language model answers is a nondeterministic choice, what the Python    *)
(* code does with the answer is computed as the code computes it.  An      *)
(* exception no handler catches ends the process (pc = "crashed").         *)
(***************************************************************************)
EXTENDS Integers, Sequences, FiniteSets, TLC

\* ---------------------------------------------------------------- constants
\* main.py: MIN_INTEREST_SCORE = 8, MAX_TOPIC_ATTEMPTS = 10, range(5)
MIN_INTEREST_SCORE == 8
MAX_TOPIC_ATTEMPTS == 10
INNER_ATTEMPTS == 5
\* fact_generator.py: int(data.get("score", 5)), int(data.get("interest_score", 5))
DEFAULT_SCORE == 5
\* video_fetcher.py: topics_to_try = available[:10]
TOPICS_PER_FETCH == 10
\* video_fetcher.py: MIN_DESCRIPTION_WORDS = 4
MIN_DESCRIPTION_WORDS == 4
\* youtube_uploader.py: MAX_RETRIES = 5, RETRIABLE_STATUS_CODES = [500, 502, 503, 504]
MAX_RETRIES == 5
\* vision_reviewer.py: num_frames = 6 (frames shown to the vision model)
NUM_FRAMES == 6
\* main.py: --duration, default 8: the min_duration given to the fetcher
duration == 8
RETRIABLE_STATUS_CODES == { 500, 502, 503, 504 }

\* ------------------------------------------------------------------- bounds
\* scores the language model answers with: MIN_INTEREST_SCORE +- ScoreSpread
ScoreSpread == 1
\* number of distinct stock videos (Pexels ids) the search can return
MaxAssets == 1
\* the call counters `calls` and `approvals` and the verdict log `audits` count
\* exactly below CallCap and stay at CallCap from there on
CallCap == 3
\* number of entries of the catalogue VIRAL_TOPICS
NumTopics == 2
\* number of distinct hook/fact texts the language model can write
MaxTexts == 1
\* size of the uploaded file, in chunks of the resumable upload
MaxChunks == 2
\* largest --count given to batch
MaxCount == 2
\* largest number of words in the URL slug of a search result
MaxWords == 4

Scores == { s \in 1..10 : s >= MIN_INTEREST_SCORE - ScoreSpread
                        /\ s <= MIN_INTEREST_SCORE + ScoreSpread }
AssetIds == 1..MaxAssets
Texts == 1..MaxTexts
\* video_fetcher.py: VIRAL_TOPICS, the catalogue of search topics
VIRAL_TOPICS == 1..NumTopics
\* the value given with --topic when one is given: a topic outside the catalogue
RequestedTopics == { NumTopics + 1 }

\* Python's None / unset, for each type of value
NoClip == [ id |-> 0, n |-> 0 ]
NoResult == [ set |-> FALSE, approved |-> FALSE, best_frame |-> 0, video_duration |-> 0 ]
NoStart == -1
NoVideo == [ url |-> << >>, duration |-> 0 ]
NoVerdict == [ set |-> FALSE, has_good_desc |-> FALSE, description |-> << >>,
               suitable |-> FALSE ]
NoCompose == [ set |-> FALSE, clip |-> NoClip, start_time |-> NoStart ]
NoFact == [ set |-> FALSE, interest_score |-> 0, about |-> 0, text |-> 0 ]
NoTopic == 0
NoSearch == [ topic |-> 0, related |-> FALSE ]
NoPath == [ kind |-> "none", ts |-> 0 ]
NoTrack == [ set |-> FALSE ]
NoError == [ kind |-> "none", status |-> 0 ]
NoUploadResult == [ set |-> FALSE, success |-> FALSE, status |-> 0, detail |-> "none" ]

VARIABLES
    cmd,              \* "generate" | "auto" | "batch": the click command invoked
    topic,            \* --topic option: the requested topic, or None
    settings,         \* [openai_api_key, pexels_api_key, pixabay_api_key : BOOLEAN] (key set?)
    no_music,         \* --no-music flag (generate only)
    output,           \* --output given? (generate only)
    upload,           \* --upload flag (auto only)
    count,            \* --count option (batch only; 1 otherwise)
    invocation,       \* batch: loop index i, the number of generate invocations
                      \* that have returned
    pc,               \* position in the command body
    exc,              \* the call whose exception ended the process, else "none"
    exit_status,      \* status the process exits with (0 unless sys.exit(1)/traceback)
    reported,         \* the lines echoed by the validation block or the failure branch
    topic_attempt,    \* outer loop index
    attempt,          \* inner loop index
    candidate,        \* last VideoClip returned by fetch_viral_video: [id, n], the
                      \* n-th one returned in its outer iteration
    video_clip,       \* approved candidate of this outer iteration, or None
    vision_result,    \* VisionVerification of the approved candidate, or None
    start_time,       \* trim point, in 1/(NUM_FRAMES + 1) seconds (unbound at first)
    composed_from,    \* the clip and start_time given to the compose call of this
                      \* outer iteration: [set, clip, start_time]
    result,           \* last VisionVerification returned by verify_video_content
    fact,             \* GeneratedFact: [set, interest_score, about, text]
    independent_score,\* value compared against MIN_INTEREST_SCORE (0: not yet set)
    music_track,      \* MusicTrack picked for this iteration, or None
    output_path,      \* artifact path, or None
    video_cache,      \* files present in settings.video_cache_dir: set of [id, whole]
    used_topics,      \* VideoFetcher._used_topics
    topics_to_try,    \* fetch_viral_video: the topics its for loop has still to try
    search_term,      \* fetch_viral_video: loop variable (None outside the call)
    actual_search,    \* fetch_viral_video: the query sent to Pexels: [topic, related]
    fetch_io,         \* requests the fetch_viral_video call in progress has made so far
    iter_topics,      \* topics searched under by the fetch calls of the inner loop
                      \* in progress
    disk,             \* files written by the command: set of [path, content, whole]
    net,              \* TRUE once any collaborator (network) call was made
    calls,            \* number of calls made to each collaborator (up to CallCap)
    iter_calls,       \* calls made to each collaborator in the current outer iteration
    fault,            \* the internal error the last collaborator call hit, or "none"
    score_source,     \* who produced independent_score: "scorer" | "generator" | "none"
    approvals,        \* number of candidates the verifier approved (up to CallCap)
    rejected_run,     \* [fetch, verify]: calls made so far while the verifier has
                      \* approved nothing (exact); zero once a candidate is approved
    last_outcome,     \* how the outer iteration just finished ended ("none" inside one)
    audits,           \* the first CallCap verdicts returned by verify_final_video
    total_chunks,     \* YouTubeUploader.upload: size of the file at video_path in
                      \* chunks (0: no file there)
    sent,             \* _resumable_upload: chunks the server has taken so far
    retry,            \* _resumable_upload: retry
    error,            \* _resumable_upload: error (None between loop iterations)
    slept,            \* _resumable_upload: the seconds given to time.sleep, in order
    failures,         \* the failures next_chunk raised, in order
    chunk_calls,      \* number of next_chunk calls made
    upload_result,    \* the UploadResult returned by upload, once it returned
    video,            \* fetch_viral_video: the search result its filter looks at:
                      \* [url, duration], url being the slug as a sequence of characters
    filtered          \* what the filter made of it: [set, has_good_desc, description,
                      \* suitable]

vars == << cmd, topic, settings, no_music, output, upload, count, invocation, pc,
           start_time, composed_from, exc, exit_status, reported,
           topic_attempt, attempt, candidate, video_clip, vision_result, result,
           fact, independent_score, music_track, output_path,
           video_cache, used_topics, topics_to_try, search_term, actual_search,
           fetch_io, iter_topics, disk, net, calls, iter_calls, fault, score_source,
           approvals, rejected_run, last_outcome, audits,
           total_chunks, sent, retry, error, slept, failures, chunk_calls,
           upload_result, video, filtered >>

Collaborators == { "fetch", "verify", "generate", "score", "music",
                   "render", "compose", "audit" }

\* ------------------------------------------------------ config/settings.py
\* variant that checks the LLM key only; C10 must tell it from the code
validate_llm_only(s) ==
    IF ~s.openai_api_key THEN << "OPENAI_API_KEY not set" >> ELSE << >>

\* Settings.validate: the list of error messages
validate(s) ==
    (IF ~s.openai_api_key THEN << "OPENAI_API_KEY not set" >> ELSE << >>)
    \o (IF ~s.pexels_api_key /\ ~s.pixabay_api_key
        THEN << "At least one of PEXELS_API_KEY or PIXABAY_API_KEY required" >>
        ELSE << >>)

\* the required configuration items that are missing
MissingItems(s) ==
    (IF ~s.openai_api_key THEN { "OPENAI_API_KEY not set" } ELSE {})
    \cup (IF ~s.pexels_api_key /\ ~s.pixabay_api_key
          THEN { "At least one of PEXELS_API_KEY or PIXABAY_API_KEY required" }
          ELSE {})

Range(seq) == { seq[i] : i \in 1..Len(seq) }

\* ------------------------------------------------------------------- Init
\* the locals of generate/auto before the command body has run
Unstarted ==
    /\ exc = "none"
    /\ exit_status = 0
    /\ reported = << >>
    /\ topic_attempt = 0
    /\ attempt = 0
    /\ candidate = NoClip
    /\ video_clip = NoClip
    /\ vision_result = NoResult
    /\ result = NoResult
    /\ fact = NoFact
    /\ independent_score = 0
    /\ music_track = NoTrack
    /\ output_path = NoPath
    /\ start_time = NoStart
    /\ composed_from = NoCompose
    /\ used_topics = {}
    /\ topics_to_try = {}
    /\ search_term = NoTopic
    /\ actual_search = NoSearch
    /\ fetch_io = {}
    /\ iter_topics = {}
    /\ net = FALSE
    /\ calls = [ c \in Collaborators |-> 0 ]
    /\ iter_calls = [ c \in Collaborators |-> 0 ]
    /\ fault = "none"
    /\ score_source = "none"
    /\ approvals = 0
    /\ rejected_run = [ fetch |-> 0, verify |-> 0 ]
    /\ last_outcome = "none"
    /\ audits = << >>

\* no upload is in progress
UploaderIdle ==
    /\ total_chunks = 0
    /\ sent = 0
    /\ retry = 0
    /\ error = NoError
    /\ slept = << >>
    /\ failures = << >>
    /\ chunk_calls = 0
    /\ upload_result = NoUploadResult

\* no search result is being filtered
FilterIdle ==
    /\ video = NoVideo
    /\ filtered = NoVerdict

Init ==
    /\ cmd \in { "generate", "auto", "batch" }
    /\ topic \in { NoTopic } \cup RequestedTopics
    /\ settings \in [ openai_api_key : BOOLEAN, pexels_api_key : BOOLEAN,
                      pixabay_api_key : BOOLEAN ]
    /\ no_music \in BOOLEAN
    /\ output \in BOOLEAN
    \* PIXABAY_API_KEY is read by validate only, and only when PEXELS_API_KEY is unset
    /\ (settings.pexels_api_key => ~settings.pixabay_api_key)
    \* auto and batch have neither --no-music nor --output: batch invokes
    \* generate with the defaults of the two
    /\ (cmd \in { "auto", "batch" } => ~no_music /\ ~output)
    \* --output is given together with --topic
    /\ (output => topic # NoTopic)
    \* generate with music and without --topic is what batch invokes
    /\ (cmd = "generate" /\ ~no_music => topic # NoTopic)
    \* a batch of one is generate itself
    /\ count = IF cmd = "batch" THEN MaxCount ELSE 1
    /\ invocation = 0
    \* --upload is an option of auto
    /\ upload \in BOOLEAN
    /\ (cmd # "auto" => ~upload)
    /\ pc = IF cmd = "batch" THEN "batch" ELSE "start"
    /\ disk = {}
    /\ video_cache = {}
    /\ Unstarted
    /\ UploaderIdle
    /\ FilterIdle

inputs == << cmd, topic, settings, no_music, output, upload, count >>
trim == << start_time, composed_from >>
filtering == << video, filtered >>
uploader == << total_chunks, sent, retry, error, slept, failures, chunk_calls,
              upload_result >>
fetchvars == << used_topics, topics_to_try, search_term, actual_search, fetch_io >>
loopvars == << topic_attempt, attempt, candidate, video_clip, vision_result, result,
               fact, independent_score, music_track, output_path >>
counters == << calls, iter_calls >>
ghosts == << fault, score_source, approvals, rejected_run, last_outcome, audits,
            iter_topics >>

\* an exception nobody catches: traceback, exit status 1
Crash(e) ==
    /\ pc' = "crashed"
    /\ exc' = e
    /\ exit_status' = 1

Min(a, b) == IF a < b THEN a ELSE b

\* one more call of collaborator c
Called(c) ==
    /\ calls' = [ calls EXCEPT ![c] = Min(@ + 1, CallCap) ]
    /\ iter_calls' = [ iter_calls EXCEPT ![c] = @ + 1 ]

\* ---------------------------------------------------- src/video_fetcher.py
\* VideoFetcher.__init__: self.pexels = PexelsClient(...) if pexels_key else None
fetcher_pexels(s) == s.pexels_api_key

\* What one fetch_viral_video call can come to, as seen by its caller:
\*   "no_api"  self.pexels is None: ValueError before any request
\*   "found"   a suitable video was found and download() returned its clip
\*   "nothing" every topic tried raised or had no suitable video: the final
\*             raise ValueError("Could not find suitable viral video ...")
FetchOutcomes(s) ==
    IF ~fetcher_pexels(s) THEN { "no_api" } ELSE { "found", "nothing" }

\* VideoFetcher.__init__: self.openai_client = OpenAI(...) if openai_api_key else None
fetcher_openai_client(s) == s.openai_api_key

\* variant that does not exclude the used topics; C18 must tell it from the code
Available_all(used) == VIRAL_TOPICS

\* available = [t for t in VIRAL_TOPICS if t not in self._used_topics]
Available(used) == { t \in VIRAL_TOPICS : t \notin used }

\* if not available: self._used_topics.clear()
UsedAfterDraw(t, used) ==
    IF t = NoTopic /\ Available(used) = {} THEN {} ELSE used

\* variant that rotates through the catalogue although a topic is given; C17
\* must tell it from the code
TopicsToTry_rotating(t, used) == { { x } : x \in VIRAL_TOPICS }

\* the values topics_to_try can get: [topic] when a topic is given, else the
\* first TOPICS_PER_FETCH entries of the shuffled list of available topics
\* (all of VIRAL_TOPICS when none is available)
TopicsToTry(t, used) ==
    IF t # NoTopic
    THEN { { t } }
    ELSE LET available == IF Available(used) = {} THEN VIRAL_TOPICS
                                                 ELSE Available(used)
             k == IF Cardinality(available) < TOPICS_PER_FETCH
                  THEN Cardinality(available) ELSE TOPICS_PER_FETCH
         IN  { S \in SUBSET available : Cardinality(S) = k }

\* how the choice of the query can go: random.random() >= 0.75 or no client
\* ("skip"), or _get_related_topic is called and returns another term
\* ("related") or the original one (its call failed, or gave the same term)
ExpandAnswers(s) ==
    IF fetcher_openai_client(s) THEN { "skip", "related", "same" } ELSE { "skip" }

\* actual_search = search_term, or self._get_related_topic(search_term)
ActualSearch(term, answer) == [ topic |-> term, related |-> (answer = "related") ]

\* what PexelsClient.download(video) can come to when the file is not cached:
\*   "ok"       the file was written completely
\*   "no_files" _select_best_file raises before any request
\*   "refused"  raise_for_status raises before the file is opened
\*   "partial"  the connection breaks while the chunks are written
DownloadOutcomes == { "ok", "no_files", "refused", "partial" }

\* cache_path.exists() for the video with this id
Cached(cache, id) == \E f \in cache : f.id = id

\* PexelsClient.download: the cache directory afterwards
download(cache, id, outcome) ==
    IF Cached(cache, id) THEN cache
    ELSE CASE outcome = "ok"      -> cache \cup { [ id |-> id, whole |-> TRUE ] }
           [] outcome = "partial" -> cache \cup { [ id |-> id, whole |-> FALSE ] }
           [] OTHER               -> cache

\* does download() return a clip (TRUE) or raise (FALSE)?
DownloadReturns(cache, id, outcome) == Cached(cache, id) \/ outcome = "ok"

\* does download() send a request?
DownloadUsesNetwork(cache, id, outcome) == ~Cached(cache, id) /\ outcome # "no_files"

\* ---------------------------------------------------- src/vision_reviewer.py
\* what ffprobe/ffmpeg and the vision API can answer to verify_video_content
VerifyAnswers == { "extract_error", "no_frames", "api_error", "malformed",
                   "matches_true", "matches_false", "matches_missing" }

\* VisionReviewer.verify_video_content: "raise" when the exception leaves the
\* method (nothing in it catches), else the verdict in the `approved` field
verify_video_content(answer) ==
    CASE answer = "extract_error"   -> "raise"      \* _extract_frames raises
      [] answer = "no_frames"       -> "rejected"   \* if not frames: approved=False
      [] answer = "api_error"       -> "raise"      \* chat.completions.create raises
      [] answer = "malformed"       -> "raise"      \* json.loads raises
      [] answer = "matches_true"    -> "approved"
      [] answer = "matches_false"   -> "rejected"
      [] answer = "matches_missing" -> "rejected"   \* data.get("matches", False)

\* the "best_frame" of an answer that says the subject matches: 1-6
BestFrames == { 1, NUM_FRAMES }

\* the VisionVerification verify_video_content returns: video_duration is 0.0
\* without frames, else what ffprobe measured (a clip the fetcher let through
\* lasts min_duration at least); best_frame is data.get("best_frame", 1)
VisionVerification(answer, best_frame) ==
    [ set |-> TRUE,
      approved |-> (verify_video_content(answer) = "approved"),
      best_frame |-> IF answer = "matches_true" THEN best_frame ELSE 1,
      video_duration |-> IF answer = "no_frames" THEN 0 ELSE duration ]

Max(a, b) == IF a > b THEN a ELSE b

\* variant that always starts at the beginning of the clip; C27 must tell it
\* from the code
get_best_start_time_zero(verification) == 0

\* VisionReviewer.get_best_start_time, in 1/(NUM_FRAMES + 1) seconds:
\* max(0.0, video_duration / (num_frames + 1) * best_frame - 1.0)
get_best_start_time(verification) ==
    IF verification.video_duration <= 0 THEN 0
    ELSE Max(0, verification.video_duration * verification.best_frame
                    - (NUM_FRAMES + 1))

\* does the call reach the vision API (a network request)?
VerifyUsesNetwork(answer) == answer \notin { "extract_error", "no_frames" }

\* what ffprobe/ffmpeg and the vision API can answer to verify_final_video
AuditAnswers == { "extract_error", "no_frames", "api_error", "malformed",
                  "visible_true", "visible_false", "visible_missing" }

\* VisionReviewer.verify_final_video: _extract_frames is called outside the
\* try block; the try block covers the API call and the parsing
verify_final_video(answer) ==
    CASE answer = "extract_error"   -> "raise"
      [] answer = "no_frames"       -> "False"   \* if not frames: return False
      [] answer = "api_error"       -> "True"    \* except Exception: return True
      [] answer = "malformed"       -> "True"    \* json.loads inside the try
      [] answer = "visible_true"    -> "True"
      [] answer = "visible_false"   -> "False"
      [] answer = "visible_missing" -> "False"   \* data.get("subject_visible", False)

AuditUsesNetwork(answer) == answer \notin { "extract_error", "no_frames" }

\* ---------------------------------------------------- src/fact_generator.py
\* what the language model can answer to the generation prompt
LLMAnswers ==
    { [ kind |-> "score", score |-> n ] : n \in Scores }
    \cup { [ kind |-> "score_missing", score |-> 0 ], [ kind |-> "error", score |-> 0 ] }
\* ... together with the hook and fact text it writes
GenerateAnswers == { [ llm |-> a, text |-> x ] : a \in LLMAnswers, x \in Texts }

\* variant that writes about nothing in particular; C13 must tell it from the code
generate_for_video_blind(video_description, answer) ==
    IF answer.llm.kind = "error" THEN NoFact
    ELSE [ set |-> TRUE, interest_score |-> DEFAULT_SCORE, about |-> 0,
           text |-> answer.text ]

\* FactGenerator.generate_for_video(video_description): the fact returned, or
\* NoFact when it raises (API error, json.loads, missing "hook"/... key)
generate_for_video(video_description, answer) ==
    CASE answer.llm.kind = "error" -> NoFact
      [] answer.llm.kind = "score_missing" ->         \* int(data.get("interest_score", 5))
           [ set |-> TRUE, interest_score |-> DEFAULT_SCORE,
             about |-> video_description, text |-> answer.text ]
      [] OTHER ->
           [ set |-> TRUE, interest_score |-> answer.llm.score,
             about |-> video_description, text |-> answer.text ]

\* what the language model can answer to the scoring prompt
ScoreAnswers == LLMAnswers

\* FactGenerator.score_fact_independently(fact): the whole body is in a try
\* block whose handler returns fact.interest_score
score_fact_independently(f, answer) ==
    CASE answer.kind = "error"         -> f.interest_score
      [] answer.kind = "score_missing" -> DEFAULT_SCORE   \* int(data.get("score", 5))
      [] OTHER                         -> answer.score

\* who produced the value score_fact_independently returns
ScoreProducer(answer) == IF answer.kind = "error" THEN "generator" ELSE "scorer"

\* ---------------------------------------------------- src/music_manager.py
\* MusicManager.__init__(self, api_key, cache_dir): self.cache_dir = cache_dir;
\* self.cache_dir.mkdir(...).  Arguments are given by their Python type.
MusicManager_init(api_key, cache_dir) ==
    IF cache_dir = "Path" THEN "ok" ELSE "AttributeError"

\* the methods class MusicManager defines
MusicManagerMethods == { "get_random_track", "get_local_track",
                         "get_track_info_for_youtube" }

\* main.py: music_mgr = MusicManager(clips_dir, settings.openai_api_key);
\*          music_track = music_mgr.pick_track(...)
\* "ok" when both succeed, else the exception raised
SelectMusic ==
    IF MusicManager_init("Path", "str") # "ok"
    THEN MusicManager_init("Path", "str")
    ELSE IF "pick_track" \in MusicManagerMethods THEN "ok" ELSE "AttributeError"


\* --------------------------------------------------------------- main.py
\* generate/auto: "Validate configuration" block
Validate ==
    /\ pc = "start"
    /\ LET errors == validate(settings) IN
        IF errors # << >>
        THEN /\ reported' = errors
             /\ pc' = "config_error"
             \* generate: return (status 0); auto: sys.exit(1)
             /\ exit_status' = IF cmd = "auto" THEN 1 ELSE 0
        ELSE /\ pc' = IF cmd = "auto" THEN "check_upload" ELSE "construct"
             /\ UNCHANGED << reported, exit_status >>
    /\ UNCHANGED << inputs, invocation, trim, uploader, filtering, fetchvars, exc, loopvars,
                    video_cache, disk, net, counters, ghosts >>

\* auto: "if not no_upload:" -- no_upload is bound nowhere (the option is
\* `upload`), so evaluating the condition raises NameError
CheckUploadCredentials ==
    /\ pc = "check_upload"
    /\ Crash("no_upload")
    /\ UNCHANGED << inputs, invocation, trim, uploader, filtering, fetchvars, reported,
                    loopvars, video_cache, disk, net, counters, ghosts >>

\* fetcher, reviewer, fact_gen are built (no network call); output_path = None
Construct ==
    /\ pc = "construct"
    /\ pc' = "outer"
    /\ output_path' = NoPath
    /\ UNCHANGED << inputs, invocation, trim, uploader, filtering, fetchvars, exc,
                    exit_status, reported, topic_attempt, attempt,
                    candidate, video_clip, vision_result, result, fact,
                    independent_score, music_track, video_cache, disk, net,
                    counters, ghosts >>

\* for topic_attempt in range(MAX_TOPIC_ATTEMPTS): head of the outer loop
OuterHasNext(i) == i < MAX_TOPIC_ATTEMPTS

\* loop head; video_clip = None; vision_result = None
OuterLoop ==
    /\ pc = "outer"
    /\ IF OuterHasNext(topic_attempt)
       THEN /\ video_clip' = NoClip
            /\ vision_result' = NoResult
            /\ attempt' = 0
            /\ iter_calls' = [ c \in Collaborators |-> 0 ]
            /\ last_outcome' = "none"
            /\ fault' = "none"
            /\ iter_topics' = {}
            /\ composed_from' = NoCompose
            /\ pc' = "inner"
       ELSE /\ pc' = "post_loop"
            /\ UNCHANGED << video_clip, vision_result, attempt, iter_calls,
                            last_outcome, fault, iter_topics, composed_from >>
    /\ UNCHANGED << inputs, invocation, start_time, uploader, filtering, fetchvars, exc,
                    exit_status, reported, topic_attempt, candidate,
                    result, fact, independent_score, music_track, output_path,
                    video_cache, disk, net, calls, score_source, approvals, rejected_run, audits >>

\* variant with one attempt fewer (range(4)); C1 must tell it from the code
InnerHasNext_short(a) == a < INNER_ATTEMPTS - 1

\* for attempt in range(5): head of the inner loop
InnerHasNext(a) == a < INNER_ATTEMPTS

\* candidate = fetcher.fetch_viral_video(min_duration=duration, topic=topic)
\* The call, up to the head of the for loop over topics_to_try.
FetchCandidate ==
    /\ pc = "inner"
    /\ InnerHasNext(attempt)
    /\ Called("fetch")
    /\ rejected_run' = IF approvals = 0 THEN [ rejected_run EXCEPT !.fetch = @ + 1 ]
                                        ELSE rejected_run
    /\ IF "no_api" \in FetchOutcomes(settings)
       THEN /\ Crash("fetch_viral_video")      \* if not self.pexels: raise ValueError
            /\ fault' = "fetch:no_api"
            /\ UNCHANGED << used_topics, topics_to_try >>
       ELSE /\ used_topics' = UsedAfterDraw(topic, used_topics)
            /\ topics_to_try' \in TopicsToTry(topic, used_topics)
            /\ fault' = "none"
            /\ pc' = "fetch_loop"
            /\ UNCHANGED << exc, exit_status >>
    /\ search_term' = NoTopic
    /\ actual_search' = NoSearch
    /\ fetch_io' = {}
    /\ UNCHANGED << inputs, invocation, trim, uploader, filtering, reported, loopvars,
                    video_cache, disk, net,
                    score_source, approvals, last_outcome, audits, iter_topics >>

\* for search_term in topics_to_try: choose the query and self.pexels.search() it;
\* an exception of the search is caught by the loop body's handler (continue)
SearchTopic ==
    /\ pc = "fetch_loop"
    /\ \E t \in topics_to_try, answer \in ExpandAnswers(settings), found \in BOOLEAN :
         /\ search_term' = t
         /\ topics_to_try' = topics_to_try \ { t }
         /\ actual_search' = ActualSearch(t, answer)
         /\ fetch_io' = fetch_io \cup { "search" }
                         \cup (IF answer = "skip" THEN {} ELSE { "gpt" })
         /\ iter_topics' = iter_topics \cup { t }
         /\ pc' = IF found THEN "searched" ELSE "fetch_loop"
    /\ net' = TRUE
    /\ UNCHANGED << inputs, invocation, trim, uploader, filtering, exc, exit_status,
                    reported, loopvars, video_cache,
                    used_topics, disk, counters, fault, score_source, approvals,
                    rejected_run, last_outcome, audits >>

\* the rest of the loop body: filter the results; if suitable:
\* self._used_topics.add(search_term); return self.pexels.download(video, description)
\* An exception of download() is caught by the loop body's handler (continue).
SelectSuitable ==
    /\ pc = "searched"
    /\ \/ /\ pc' = "fetch_loop"              \* no video with a good description
          /\ UNCHANGED << used_topics, video_cache, candidate, search_term,
                          actual_search, fetch_io, topics_to_try >>
       \/ \E id \in AssetIds, outcome \in DownloadOutcomes :
            /\ used_topics' = used_topics \cup { search_term }
            /\ video_cache' = download(video_cache, id, outcome)
            /\ IF DownloadReturns(video_cache, id, outcome)
               THEN /\ candidate' = [ id |-> id, n |-> iter_calls["fetch"] ]
                    /\ search_term' = NoTopic
                    /\ actual_search' = NoSearch
                    /\ topics_to_try' = {}
                    /\ fetch_io' = {}
                    /\ pc' = "verify"
               ELSE /\ fetch_io' = fetch_io \cup
                           (IF DownloadUsesNetwork(video_cache, id, outcome)
                            THEN { "download" } ELSE {})
                    /\ pc' = "fetch_loop"
                    /\ UNCHANGED << candidate, search_term, actual_search, topics_to_try >>
    /\ UNCHANGED << inputs, invocation, trim, uploader, filtering, exc, exit_status,
                    reported, topic_attempt, attempt,
                    video_clip, vision_result, result, fact, independent_score,
                    music_track, output_path, disk, net, counters, ghosts >>

\* the for loop is over: raise ValueError("Could not find suitable viral video ...")
FetchGiveUp ==
    /\ pc = "fetch_loop"
    /\ topics_to_try = {}
    /\ "nothing" \in FetchOutcomes(settings)
    /\ Crash("fetch_viral_video")
    /\ fault' = "fetch:nothing"
    /\ UNCHANGED << inputs, invocation, trim, uploader, filtering, reported, loopvars,
                    video_cache, fetchvars, disk, net,
                    counters, score_source, approvals, rejected_run, last_outcome,
                    audits, iter_topics >>

\* the inner for loop has run out of attempts
InnerExhausted ==
    /\ pc = "inner"
    /\ ~InnerHasNext(attempt)
    /\ pc' = "after_inner"
    /\ UNCHANGED << inputs, invocation, trim, uploader, filtering, fetchvars, exc,
                    exit_status, reported, loopvars, video_cache,
                    disk, net, counters, ghosts >>

\* the answers with which the verifier's own collaborators fail
VerifyFaults == { "extract_error", "no_frames", "api_error", "malformed" }

\* result = reviewer.verify_video_content(candidate.path, candidate.description)
\* if result.approved: video_clip = candidate; vision_result = result; break
VerifyCandidate ==
    /\ pc = "verify"
    /\ Called("verify")
    /\ \E answer \in VerifyAnswers, best_frame \in BestFrames :
         LET verdict == verify_video_content(answer) IN
         /\ (answer # "matches_true" => best_frame = 1)
         /\ net' = (net \/ VerifyUsesNetwork(answer))
         /\ fault' = IF answer \in VerifyFaults THEN "verify:" \o answer ELSE "none"
         /\ IF verdict = "raise"
            THEN /\ Crash("verify_video_content")
                 /\ UNCHANGED << result, video_clip, vision_result, attempt, approvals >>
            ELSE /\ result' = VisionVerification(answer, best_frame)
                 /\ UNCHANGED << exc, exit_status >>
                 /\ IF result'.approved
                    THEN /\ video_clip' = candidate
                         /\ vision_result' = result'
                         /\ approvals' = Min(approvals + 1, CallCap)
                         /\ pc' = "after_inner"
                         /\ UNCHANGED attempt
                    ELSE /\ attempt' = attempt + 1
                         /\ pc' = "inner"
                         /\ UNCHANGED << video_clip, vision_result, approvals >>
         /\ rejected_run' =
                IF verdict = "approved" THEN [ fetch |-> 0, verify |-> 0 ]
                ELSE IF approvals = 0 THEN [ rejected_run EXCEPT !.verify = @ + 1 ]
                ELSE rejected_run
    /\ UNCHANGED << inputs, invocation, trim, uploader, filtering, fetchvars, reported,
                    topic_attempt, candidate, fact,
                    independent_score, music_track, output_path, video_cache, disk,
                    score_source, last_outcome, audits, iter_topics >>

\* if not video_clip: ... continue
NoVerifiedVideo ==
    /\ pc = "after_inner"
    /\ video_clip = NoClip
    /\ last_outcome' = "rejected-asset"
    /\ topic_attempt' = topic_attempt + 1
    /\ pc' = "outer"
    /\ UNCHANGED << inputs, invocation, trim, uploader, filtering, fetchvars, exc,
                    exit_status, reported, attempt, candidate,
                    video_clip, vision_result, result, fact, independent_score,
                    music_track, output_path, video_cache, disk, net, counters,
                    fault, score_source, approvals, rejected_run, audits, iter_topics >>

\* start_time = reviewer.get_best_start_time(vision_result)
GetBestStartTime ==
    /\ pc = "after_inner"
    /\ video_clip # NoClip
    /\ pc' = "generate"
    /\ start_time' = get_best_start_time(vision_result)
    /\ iter_topics' = {}
    /\ UNCHANGED << inputs, invocation, composed_from, uploader, filtering, fetchvars, exc,
                    exit_status, reported, loopvars, video_cache,
                    disk, net, counters, fault, score_source, approvals,
                    rejected_run, last_outcome, audits >>

\* fact = fact_gen.generate_for_video(video_clip.description)
GenerateContent ==
    /\ pc = "generate"
    /\ Called("generate")
    /\ net' = TRUE
    /\ \E answer \in GenerateAnswers :
         LET f == generate_for_video(video_clip.id, answer) IN
         IF ~f.set
         THEN /\ Crash("generate_for_video")
              /\ fault' = "generate:error"
              /\ UNCHANGED fact
         ELSE /\ fact' = f
              /\ fault' = "none"
              /\ pc' = "score"
              /\ UNCHANGED << exc, exit_status >>
    /\ UNCHANGED << inputs, invocation, trim, uploader, filtering, fetchvars, reported,
                    topic_attempt, attempt, candidate,
                    video_clip, vision_result, result, independent_score,
                    music_track, output_path, video_cache, disk, score_source,
                    approvals, rejected_run, last_outcome, audits, iter_topics >>

\* variant without a gate; C14 must tell it from the code
BelowThreshold_never(score) == FALSE

\* variant with <= for <; C2 must tell it from the code
BelowThreshold_inclusive(score) == score <= MIN_INTEREST_SCORE

\* if independent_score < MIN_INTEREST_SCORE: ... continue
BelowThreshold(score) == score < MIN_INTEREST_SCORE

\* independent_score = fact_gen.score_fact_independently(fact)
\* fact.interest_score = independent_score; then the quality gate
ScoreContent ==
    /\ pc = "score"
    /\ Called("score")
    /\ net' = TRUE
    /\ \E answer \in ScoreAnswers :
         /\ independent_score' = score_fact_independently(fact, answer)
         /\ score_source' = ScoreProducer(answer)
         /\ fault' = IF answer.kind = "error" THEN "score:error" ELSE "none"
    /\ fact' = [ fact EXCEPT !.interest_score = independent_score' ]
    /\ IF BelowThreshold(independent_score')
       THEN /\ last_outcome' = "rejected-quality"
            /\ topic_attempt' = topic_attempt + 1
            /\ pc' = "outer"
       ELSE /\ pc' = "music"
            /\ UNCHANGED << last_outcome, topic_attempt >>
    /\ UNCHANGED << inputs, invocation, trim, uploader, filtering, fetchvars, exc,
                    exit_status, reported, attempt, candidate,
                    video_clip, vision_result, result, music_track, output_path,
                    video_cache, disk, approvals, rejected_run, audits, iter_topics >>

\* if not no_music: music_mgr = MusicManager(...); music_track = music_mgr.pick_track(...)
PickMusic ==
    /\ pc = "music"
    /\ ~no_music
    /\ Called("music")
    /\ IF SelectMusic = "ok"
       THEN /\ music_track' = [ set |-> TRUE ]
            /\ fault' = "none"
            /\ pc' = "render"
            /\ UNCHANGED << exc, exit_status >>
       ELSE /\ Crash("MusicManager")
            /\ fault' = "music:" \o SelectMusic
            /\ UNCHANGED music_track
    /\ UNCHANGED << inputs, invocation, trim, uploader, filtering, fetchvars, reported,
                    topic_attempt, attempt, candidate,
                    video_clip, vision_result, result, fact, independent_score,
                    output_path, video_cache, disk, net, score_source, approvals, rejected_run,
                    last_outcome, audits, iter_topics >>

\* else: "Skipping music (--no-music flag)"; music_track stays None
SkipMusic ==
    /\ pc = "music"
    /\ no_music
    /\ music_track' = NoTrack
    /\ pc' = "render"
    /\ UNCHANGED << inputs, invocation, trim, uploader, filtering, fetchvars, exc,
                    exit_status, reported, topic_attempt, attempt,
                    candidate, video_clip, vision_result, result, fact,
                    independent_score, output_path, video_cache, disk, net,
                    counters, ghosts >>

\* ------------------------------------------- main.py: render, compose, audit
\* files of `d` stored under path `p`
FilesAt(d, p) == { f \in d : f.path = p }

\* variant in which the file is left in place; C4 must tell it from the code
Unlink_kept(d, p) == d

\* text_image_path.unlink() / output_path.unlink()
Unlink(d, p) == d \ FilesAt(d, p)

\* open(p, "wb") and write: whatever was stored under p is replaced
WriteFile(d, p, content, whole) ==
    Unlink(d, p) \cup { [ path |-> p, content |-> content, whole |-> whole ] }

\* rendered artifacts and temporary overlay images among the files of `d`
Artifacts(d) == { f \in d : f.path.kind \in { "short", "user" } }
TempImages(d) == { f \in d : f.path.kind = "temp" }

\* timestamp = datetime.now().strftime("%Y%m%d_%H%M%S"): an outer iteration
\* takes longer than the one-second resolution of the format, so the timestamp
\* read in outer iteration i is modelled as i + 1
timestamp(i) == i + 1

\* text_image_path = settings.output_dir / f"_temp_text_{timestamp}.png"
text_image_path(i) == [ kind |-> "temp", ts |-> timestamp(i) ]

\* if output: output_path = Path(output)
\* else: output_path = output_dir / f"short_{safe_category}_{timestamp}.mp4"
OutputPath(out, i) ==
    IF out THEN [ kind |-> "user", ts |-> 0 ]
           ELSE [ kind |-> "short", ts |-> timestamp(i) ]

\* renderer.render(fact.hook, fact.fact_text, fact.highlight_words, text_image_path)
RenderText ==
    /\ pc = "render"
    /\ Called("render")
    /\ \/ /\ disk' = WriteFile(disk, text_image_path(topic_attempt), 0, TRUE)
          /\ fault' = "none"
          /\ pc' = "compose"
          /\ UNCHANGED << exc, exit_status >>
       \/ /\ Crash("render")                 \* img.save raises
          /\ fault' = "render:error"
          /\ disk' \in { disk, WriteFile(disk, text_image_path(topic_attempt), 0, FALSE) }
    /\ UNCHANGED << inputs, invocation, trim, uploader, filtering, fetchvars, reported,
                    loopvars, video_cache, net, score_source,
                    approvals, rejected_run, last_outcome, audits, iter_topics >>

\* composer.compose(text_image_path, video_clip.path, output_path, music_path, ...)
\* followed by: if text_image_path.exists(): text_image_path.unlink()
\* The artifact written by the n-th compose call has content n.
ComposeVideo ==
    /\ pc = "compose"
    /\ Called("compose")
    /\ output_path' = OutputPath(output, topic_attempt)
    /\ composed_from' = [ set |-> TRUE, clip |-> video_clip, start_time |-> start_time ]
    /\ \/ /\ disk' = Unlink(WriteFile(disk, output_path', calls'["compose"], TRUE),
                            text_image_path(topic_attempt))
          /\ fault' = "none"
          /\ pc' = "audit"
          /\ UNCHANGED << exc, exit_status >>
       \/ /\ Crash("compose")                \* moviepy / ffmpeg raises
          /\ fault' = "compose:error"
          /\ disk' \in { disk, WriteFile(disk, output_path', calls'["compose"], FALSE) }
    /\ UNCHANGED << inputs, invocation, start_time, uploader, filtering, fetchvars,
                    reported, topic_attempt, attempt, candidate,
                    video_clip, vision_result, result, fact, independent_score,
                    music_track, video_cache, net, score_source, approvals, rejected_run,
                    last_outcome, audits, iter_topics >>

\* the answers with which the final auditor's own collaborators fail
AuditFaults == { "extract_error", "no_frames", "api_error", "malformed" }

\* the verdict log, kept to the first CallCap verdicts
Logged(log, verdict) == IF Len(log) < CallCap THEN Append(log, verdict) ELSE log

\* subject_visible = reviewer.verify_final_video(output_path, fact.hook, fact.fact_text)
\* if subject_visible: break
\* else: if output_path.exists(): output_path.unlink(); output_path = None
AuditFinal ==
    /\ pc = "audit"
    /\ Called("audit")
    /\ \E answer \in AuditAnswers :
         LET subject_visible == verify_final_video(answer) IN
         /\ net' = (net \/ AuditUsesNetwork(answer))
         /\ fault' = IF answer \in AuditFaults THEN "audit:" \o answer ELSE "none"
         /\ CASE subject_visible = "raise" ->
                   /\ Crash("verify_final_video")
                   /\ UNCHANGED << disk, output_path, topic_attempt, last_outcome, audits >>
              [] subject_visible = "True" ->
                   /\ audits' = Logged(audits, TRUE)
                   /\ pc' = "post_loop"
                   /\ UNCHANGED << exc, exit_status, disk, output_path,
                                   topic_attempt, last_outcome >>
              [] subject_visible = "False" ->
                   /\ audits' = Logged(audits, FALSE)
                   /\ disk' = Unlink(disk, output_path)
                   /\ output_path' = NoPath
                   /\ last_outcome' = "rejected-final"
                   /\ topic_attempt' = topic_attempt + 1
                   /\ pc' = "outer"
                   /\ UNCHANGED << exc, exit_status >>
    /\ UNCHANGED << inputs, invocation, trim, uploader, filtering, fetchvars, reported,
                    attempt, candidate, video_clip,
                    vision_result, result, fact, independent_score, music_track,
                    video_cache, score_source, approvals, rejected_run, iter_topics >>

\* variant with the exists() test inverted; C5 must tell it from the code
NoGoodVideo_inverted == output_path = NoPath \/ FilesAt(disk, output_path) # {}

\* if not output_path or not output_path.exists():
NoGoodVideo == output_path = NoPath \/ FilesAt(disk, output_path) = {}

\* click.echo(f"\nCould not produce a good video after {MAX_TOPIC_ATTEMPTS}
\* attempts."): the one line the failure branch prints
FailureMessage == "Could not produce a good video after MAX_TOPIC_ATTEMPTS attempts."

\* the failure branch after the loop: the message; generate: return,
\* auto: sys.exit(1)
ReportFailure ==
    /\ pc = "post_loop"
    /\ NoGoodVideo
    /\ pc' = "failed"
    /\ reported' = << FailureMessage >>
    /\ exit_status' = IF cmd = "auto" THEN 1 ELSE 0
    /\ UNCHANGED << inputs, invocation, trim, uploader, filtering, fetchvars, exc, loopvars,
                    video_cache, disk, net,
                    counters, ghosts >>

\* "=== Video Generated Successfully! ==="
ReportSuccess ==
    /\ pc = "post_loop"
    /\ ~NoGoodVideo
    /\ pc' = "accepted"
    /\ UNCHANGED << inputs, invocation, trim, uploader, filtering, fetchvars, exc,
                    exit_status, reported, loopvars, video_cache,
                    disk, net, counters, ghosts >>

\* batch: head of `for i in range(count):`; ctx.invoke(generate, topic=topic,
\* duration=duration) enters the body of generate; after the loop
\* "Batch complete!"
BatchLoop ==
    /\ pc = "batch"
    /\ pc' = IF invocation < count THEN "start" ELSE "batch_complete"
    /\ UNCHANGED << inputs, invocation, trim, uploader, filtering, fetchvars, exc,
                    exit_status, reported,
                    loopvars, video_cache, disk, net, counters, ghosts >>

\* batch: the invoked generate has returned (its `return` after the
\* validation errors or after the failure message, or its end): its locals
\* and the objects it built are gone, the next invocation builds its own; the
\* files it left stay
BatchReturn ==
    /\ cmd = "batch"
    /\ pc \in { "config_error", "failed", "accepted" }
    /\ invocation' = invocation + 1
    /\ pc' = "batch"
    /\ exc' = "none"
    /\ exit_status' = 0
    /\ reported' = << >>
    /\ topic_attempt' = 0
    /\ attempt' = 0
    /\ candidate' = NoClip
    /\ video_clip' = NoClip
    /\ vision_result' = NoResult
    /\ result' = NoResult
    /\ fact' = NoFact
    /\ independent_score' = 0
    /\ music_track' = NoTrack
    /\ output_path' = NoPath
    /\ start_time' = NoStart
    /\ composed_from' = NoCompose
    /\ used_topics' = {}
    /\ topics_to_try' = {}
    /\ search_term' = NoTopic
    /\ actual_search' = NoSearch
    /\ fetch_io' = {}
    /\ iter_topics' = {}
    /\ net' = FALSE
    /\ calls' = [ c \in Collaborators |-> 0 ]
    /\ iter_calls' = [ c \in Collaborators |-> 0 ]
    /\ fault' = "none"
    /\ score_source' = "none"
    /\ approvals' = 0
    /\ rejected_run' = [ fetch |-> 0, verify |-> 0 ]
    /\ last_outcome' = "none"
    /\ audits' = << >>
    /\ UNCHANGED << inputs, uploader, filtering, video_cache, disk >>

Next ==
    \/ BatchLoop
    \/ BatchReturn
    \/ Validate
    \/ CheckUploadCredentials
    \/ Construct
    \/ OuterLoop
    \/ FetchCandidate
    \/ SearchTopic
    \/ SelectSuitable
    \/ FetchGiveUp
    \/ InnerExhausted
    \/ VerifyCandidate
    \/ NoVerifiedVideo
    \/ GetBestStartTime
    \/ GenerateContent
    \/ ScoreContent
    \/ PickMusic
    \/ SkipMusic
    \/ RenderText
    \/ ComposeVideo
    \/ AuditFinal
    \/ ReportFailure
    \/ ReportSuccess

Spec == Init /\ [][Next]_vars

\* -------------------------------------------------- src/youtube_uploader.py
\* YouTubeUploader.upload(video_path, metadata), with video_path = output_path
\* as auto passes it.  What next_chunk answers is the server's and the
\* network's choice.

\* statuses an HttpError raised by next_chunk can carry
HttpStatuses == RETRIABLE_STATUS_CODES \cup { 400, 403 }

\* what one insert_request.next_chunk() call can come to when `done` chunks
\* of `total` were taken before it: (status, None), (status, response), an
\* HttpError, an httplib2.HttpLib2Error/IOError, or any other exception
NextChunkOutcomes(done, total) ==
    { [ kind |-> IF done + 1 < total THEN "progress" ELSE "response", status |-> 200 ] }
    \cup { [ kind |-> "http", status |-> st ] : st \in HttpStatuses }
    \cup { [ kind |-> "transport", status |-> 0 ], [ kind |-> "other", status |-> 0 ] }

Raised(o) == o.kind \in { "http", "transport", "other" }

\* variant that retries whatever HttpError is raised; C24 must tell it from the code
Retriable_any(o) == o.kind \in { "http", "transport" }

\* the two except clauses of _resumable_upload that set `error`
Retriable(o) ==
    \/ o.kind = "http" /\ o.status \in RETRIABLE_STATUS_CODES
    \/ o.kind = "transport"

\* variant with a linear back-off; C23 must tell it from the code
sleep_seconds_linear(r) == 2 * r

\* sleep_seconds = 2 ** retry
sleep_seconds(r) == 2 ^ r

\* the UploadResult the except clauses of upload build from what
\* _resumable_upload raised: o itself (an HttpError or another exception), or
\* Exception("Upload failed after MAX_RETRIES retries: ...") when exhausted
UploadFailure(o, exhausted) ==
    IF exhausted
    THEN [ set |-> TRUE, success |-> FALSE, status |-> o.status, detail |-> "after_retries" ]
    ELSE IF o.kind = "http"
         THEN [ set |-> TRUE, success |-> FALSE, status |-> o.status, detail |-> "api_error" ]
         ELSE [ set |-> TRUE, success |-> FALSE, status |-> 0, detail |-> "exception" ]

\* upload up to the call of _resumable_upload: the exists() test, the request
\* body, response = None; error = None; retry = 0
UploadBegin ==
    /\ pc = "upload"
    /\ IF FilesAt(disk, output_path) = {}
       THEN /\ upload_result' = [ set |-> TRUE, success |-> FALSE, status |-> 0,
                                  detail |-> "not_found" ]
            /\ pc' = "returned"
       ELSE /\ pc' = "next_chunk"
            /\ UNCHANGED upload_result
    /\ retry' = 0
    /\ error' = NoError
    /\ UNCHANGED << inputs, invocation, trim, filtering, fetchvars, exc, exit_status,
                    reported, loopvars, video_cache,
                    disk, net, counters, ghosts, total_chunks, sent, slept, failures,
                    chunk_calls >>

\* one pass of `while response is None:` up to time.sleep, the raise or the return
NextChunk ==
    /\ pc = "next_chunk"
    /\ chunk_calls' = chunk_calls + 1
    /\ \E o \in NextChunkOutcomes(sent, total_chunks) :
        IF ~Raised(o)
        THEN /\ sent' = sent + 1
             /\ IF o.kind = "response"
                THEN /\ upload_result' = [ set |-> TRUE, success |-> TRUE,
                                           status |-> o.status, detail |-> "none" ]
                     /\ pc' = "returned"
                ELSE /\ pc' = "next_chunk"
                     /\ UNCHANGED upload_result
             /\ UNCHANGED << retry, error, failures >>
        ELSE /\ failures' = Append(failures, o)
             /\ UNCHANGED sent
             /\ IF Retriable(o)
                THEN /\ retry' = retry + 1
                     /\ error' = o
                     /\ IF retry + 1 > MAX_RETRIES
                        THEN /\ upload_result' = UploadFailure(o, TRUE)
                             /\ pc' = "returned"
                        ELSE /\ pc' = "backoff"
                             /\ UNCHANGED upload_result
                ELSE /\ upload_result' = UploadFailure(o, FALSE)
                     /\ pc' = "returned"
                     /\ UNCHANGED << retry, error >>
    /\ UNCHANGED << inputs, invocation, trim, filtering, fetchvars, exc, exit_status,
                    reported, loopvars, video_cache,
                    disk, net, counters, ghosts, total_chunks, slept >>

\* time.sleep(sleep_seconds); error = None
Backoff ==
    /\ pc = "backoff"
    /\ slept' = Append(slept, sleep_seconds(retry))
    /\ error' = NoError
    /\ pc' = "next_chunk"
    /\ UNCHANGED << inputs, invocation, trim, filtering, fetchvars, exc, exit_status,
                    reported, loopvars, video_cache,
                    disk, net, counters, ghosts, total_chunks, sent, retry, failures,
                    chunk_calls, upload_result >>

\* the file auto hands to upload: the Short of its first outer iteration
UploadedFile == [ path |-> OutputPath(FALSE, 0), content |-> 1, whole |-> TRUE ]

\* upload is called with a path at which a file of 1..MaxChunks chunks is, or
\* at which no file is
UploadInit ==
    /\ cmd = "auto"
    /\ topic \in { NoTopic } \cup RequestedTopics
    /\ settings = [ openai_api_key |-> TRUE, pexels_api_key |-> TRUE,
                    pixabay_api_key |-> FALSE ]
    /\ no_music = FALSE
    /\ output = FALSE
    /\ upload = TRUE
    /\ count = 1
    /\ start_time = NoStart
    /\ composed_from = NoCompose
    /\ invocation = 0
    /\ pc = "upload"
    /\ total_chunks \in 0..MaxChunks
    /\ disk = IF total_chunks = 0 THEN {} ELSE { UploadedFile }
    /\ exc = "none"
    /\ exit_status = 0
    /\ reported = << >>
    /\ topic_attempt = 0
    /\ attempt = 0
    /\ candidate = NoClip
    /\ video_clip = NoClip
    /\ vision_result = NoResult
    /\ result = NoResult
    /\ fact = NoFact
    /\ independent_score = 0
    /\ music_track = NoTrack
    /\ output_path = UploadedFile.path
    /\ video_cache = {}
    /\ used_topics = {}
    /\ topics_to_try = {}
    /\ search_term = NoTopic
    /\ actual_search = NoSearch
    /\ fetch_io = {}
    /\ iter_topics = {}
    /\ net = FALSE
    /\ calls = [ c \in Collaborators |-> 0 ]
    /\ iter_calls = [ c \in Collaborators |-> 0 ]
    /\ fault = "none"
    /\ score_source = "none"
    /\ approvals = 0
    /\ rejected_run = [ fetch |-> 0, verify |-> 0 ]
    /\ last_outcome = "none"
    /\ audits = << >>
    /\ sent = 0
    /\ retry = 0
    /\ error = NoError
    /\ slept = << >>
    /\ failures = << >>
    /\ chunk_calls = 0
    /\ upload_result = NoUploadResult
    /\ FilterIdle

UploadNext ==
    \/ UploadBegin
    \/ NextChunk
    \/ Backoff

UploadSpec == UploadInit /\ [][UploadNext]_vars

\* ------------------------------- src/video_fetcher.py: the description filter
\* Strings are sequences of characters.  The two word lists are excerpts of
\* the lists of the source.
\* VAGUE_WORDS: "man", "sky"
VAGUE_WORDS == { << "m", "a", "n" >>, << "s", "k", "y" >> }
\* GOOD_SUBJECT_WORDS: "lion", "manta"
GOOD_SUBJECT_WORDS == { << "l", "i", "o", "n" >>, << "m", "a", "n", "t", "a" >> }
\* words a slug is made of: the listed ones, "sea" and "Reef"
SlugWords == VAGUE_WORDS \cup GOOD_SUBJECT_WORDS
             \cup { << "s", "e", "a" >>, << "R", "e", "e", "f" >> }

\* "-".join(words)
RECURSIVE Slug(_)
Slug(ws) ==
    IF Len(ws) = 0 THEN << >>
    ELSE IF Len(ws) = 1 THEN ws[1]
    ELSE ws[1] \o << "-" >> \o Slug(Tail(ws))

\* the slugs of the search results: 1..MaxWords words joined by hyphens
Slugs == { Slug(ws) : ws \in UNION { [ 1..n -> SlugWords ] : n \in 1..MaxWords } }

\* extract_description_from_url: slug.replace('-', ' ')
extract_description_from_url(url) ==
    [ i \in 1..Len(url) |-> IF url[i] = "-" THEN " " ELSE url[i] ]

\* str.lower()
lower(str) ==
    [ i \in 1..Len(str) |-> IF str[i] = "R" THEN "r" ELSE str[i] ]

\* len(str.split()): the number of maximal runs of non-blank characters
word_count(str) ==
    Cardinality({ i \in 1..Len(str) : str[i] # " " /\ (i = 1 \/ str[i - 1] = " ") })

\* Python's `sub in str` on strings
In(sub, str) ==
    \E i \in 1..(Len(str) - Len(sub) + 1) : SubSeq(str, i, i + Len(sub) - 1) = sub

\* `if vague_word in description_lower`
VagueIn(vague_word, description_lower) == In(vague_word, description_lower)

\* PexelsClient.has_good_description(video_data): (is_good, description)
has_good_description(video_data) ==
    LET description == extract_description_from_url(video_data.url)
        description_lower == lower(description)
    IN  [ description |-> description,
          is_good |->
            /\ ~(word_count(description) < MIN_DESCRIPTION_WORDS)
            /\ ~(\E vague_word \in VAGUE_WORDS : VagueIn(vague_word, description_lower))
            /\ (\E subject \in GOOD_SUBJECT_WORDS : In(subject, description_lower)) ]

\* fetch_viral_video, body of `for video in results:`: the duration test, then
\* the description test; suitable.append((video, description))
FilterVideo ==
    /\ pc = "filter"
    /\ LET checked == has_good_description(video) IN
       filtered' = [ set |-> TRUE,
                    has_good_desc |-> checked.is_good,
                    description |-> checked.description,
                    suitable |-> ~(video.duration < duration) /\ checked.is_good ]
    /\ pc' = "filtered"
    /\ UNCHANGED << inputs, invocation, trim, uploader, video, fetchvars, exc, exit_status,
                    reported, loopvars, video_cache, disk, net, counters, ghosts >>

\* a search made with valid keys has returned a video whose slug has
\* 1..MaxWords words and which lasts min_duration or a second less
FilterInit ==
    /\ cmd = "generate"
    /\ topic \in { NoTopic } \cup RequestedTopics
    /\ settings = [ openai_api_key |-> TRUE, pexels_api_key |-> TRUE,
                    pixabay_api_key |-> FALSE ]
    /\ no_music = TRUE
    /\ output = FALSE
    /\ upload = FALSE
    /\ count = 1
    /\ invocation = 0
    /\ pc = "filter"
    /\ disk = {}
    /\ video_cache = {}
    /\ Unstarted
    /\ UploaderIdle
    /\ video \in [ url : Slugs, duration : { duration - 1, duration } ]
    /\ filtered = NoVerdict

FilterNext == FilterVideo

FilterSpec == FilterInit /\ [][FilterNext]_vars

\* ===================================================================== claims
Terminal == { "config_error", "crashed", "failed", "accepted" }
Downstream == { "generate", "score", "music", "render", "compose", "audit" }

\* C1: with a verifier that rejects every candidate (approvals = 0), an outer
\* iteration is abandoned only after exactly INNER_ATTEMPTS fetch calls and
\* INNER_ATTEMPTS verify calls, the generator, scorer, music selection,
\* renderer, composer and final auditor are never called, every finished outer
\* iteration ended as an asset rejection, and the run ends in terminal failure
\* after exactly MAX_TOPIC_ATTEMPTS outer iterations and
\* INNER_ATTEMPTS * MAX_TOPIC_ATTEMPTS fetch and verify calls.
C1_RetryBudget ==
    /\ (pc = "after_inner" /\ video_clip = NoClip)
          => /\ iter_calls["fetch"] = INNER_ATTEMPTS
             /\ iter_calls["verify"] = INNER_ATTEMPTS
    /\ approvals = 0
          => /\ \A c \in Downstream : calls[c] = 0
             /\ last_outcome \in { "none", "rejected-asset" }
             /\ pc # "accepted"
             /\ pc = "failed"
                   => /\ topic_attempt = MAX_TOPIC_ATTEMPTS
                      /\ rejected_run.fetch = INNER_ATTEMPTS * MAX_TOPIC_ATTEMPTS
                      /\ rejected_run.verify = INNER_ATTEMPTS * MAX_TOPIC_ATTEMPTS

\* the always-rejecting verifier has driven the run to terminal failure
C1_Witness == pc = "failed" /\ approvals = 0 /\ rejected_run.verify > 0

\* C2: music selection, text rendering, composition and the final audit are
\* entered only with a fact whose gating score is >= MIN_INTEREST_SCORE, and an
\* outer iteration abandoned at the quality gate had a gating score below it.
C2_GateMonotonic ==
    /\ pc \in { "music", "render", "compose", "audit" }
          => /\ fact.set
             /\ fact.interest_score >= MIN_INTEREST_SCORE
             /\ independent_score = fact.interest_score
    /\ last_outcome = "rejected-quality"
          => /\ fact.interest_score < MIN_INTEREST_SCORE
             /\ independent_score = fact.interest_score

\* composition entered with a fact that passed the gate
C2_Witness == pc = "compose" /\ fact.interest_score >= MIN_INTEREST_SCORE

\* C3 (as claimed): the value compared against the threshold was produced by
\* the independent scorer, never by the generator.
C3_GateScoreFromScorer == score_source \in { "none", "scorer" }

\* C4: at most one rendered artifact is on disk at any time; none is on disk
\* while an outer iteration is between its start and its compose step or when
\* the run has failed; once accepted, the only artifact is the one the last
\* (accepted) outer iteration composed.
C4_AtMostOneArtifact ==
    /\ Cardinality(Artifacts(disk)) <= 1
    /\ pc \in { "outer", "inner", "verify", "after_inner", "generate", "score",
                "music", "render", "compose", "failed" }
          => Artifacts(disk) = {}
    /\ pc = "accepted"
          => Artifacts(disk) = { [ path |-> OutputPath(output, topic_attempt),
                                   content |-> calls["compose"], whole |-> TRUE ] }

\* a later outer iteration is about to compose after an artifact was rejected
C4_Witness == pc = "compose" /\ Len(audits) >= 1 /\ calls["compose"] >= 1

\* C5: auditor false for the first artifact, true for the second: from the
\* first verdict until the second compose no artifact is on disk; after the
\* second verdict the run is accepted (not failed, not crashed) and the only
\* artifact is the one the second compose wrote.
C5_FinalAuditRollback ==
    /\ (audits = << FALSE >> /\ calls["compose"] = 1) => Artifacts(disk) = {}
    /\ audits = << FALSE, TRUE >>
          => /\ pc \in { "post_loop", "accepted" }
             /\ Artifacts(disk) = { [ path |-> output_path, content |-> 2,
                                      whole |-> TRUE ] }
             /\ output_path = OutputPath(output, topic_attempt)

\* ended Accepted after exactly one rejected artifact
C5_Witness == pc = "accepted" /\ audits = << FALSE, TRUE >>

\* C6 (as claimed): an error raised by fetching, verifying or generating is
\* treated as a rejection and the run goes on while retry budget remains.
C6_ErrorsConsumeRetrySlot ==
    ( /\ fault \in { "fetch:nothing", "verify:extract_error", "verify:api_error",
                     "verify:malformed", "generate:error" }
      /\ topic_attempt < MAX_TOPIC_ATTEMPTS )
    => pc # "crashed"

\* C7 (as claimed): when the verifier's own collaborator call fails, the
\* candidate gets a result with approved = false and no error propagates.
C7_VerifierFailClosed ==
    fault \in { "verify:" \o a : a \in VerifyFaults }
    => /\ pc # "crashed"
       /\ result.set
       /\ ~result.approved

\* C8 (as claimed): when the final auditor hits an internal error it returns
\* true, so the artifact is kept and the run is on its way to Accepted.
C8_AuditorFailOpen ==
    fault \in { "audit:" \o a : a \in AuditFaults }
    => /\ pc \in { "post_loop", "accepted" }
       /\ Artifacts(disk) # {}

\* C9 (as claimed): with music enabled and music selection failing, the run
\* does not abort: it goes on to rendering with no music.
C9_MusicDegradesGracefully ==
    (~no_music /\ iter_calls["music"] > 0)
    => /\ pc # "crashed"
       /\ music_track = NoTrack

\* C10: whenever a required configuration item is missing, the command never
\* gets past the validation block: no collaborator is called, no network
\* request is made, and once it has stopped each missing item was reported
\* exactly once (under batch: no invocation gets past it; between two
\* invocations the command is at the head of its loop).
C10_ConfigFailFast ==
    MissingItems(settings) # {}
    => /\ pc \in { "start", "config_error", "batch", "batch_complete" }
       /\ ~net
       /\ \A c \in Collaborators : calls[c] = 0
       /\ pc = "config_error"
             => /\ Range(reported) = MissingItems(settings)
                /\ Len(reported) = Cardinality(MissingItems(settings))

\* stopped with both required items reported
C10_Witness == pc = "config_error" /\ Len(reported) = 2

\* C11 (as claimed): a generation command that ends without an accepted
\* artifact, on a configuration error or with the retry budget exhausted,
\* exits with a non-zero status.
C11_NonZeroExitOnFailure ==
    pc \in { "config_error", "failed" } => exit_status # 0

\* the calls whose exception is a collaborator call that did not return
CollaboratorRaised == { "fetch_viral_video", "verify_video_content",
                        "generate_for_video", "render", "compose",
                        "verify_final_video" }

\* C12 (as claimed): a `generate` run with a valid configuration in which
\* every collaborator call returned has, once it has ended, ended either
\* accepted (exactly one artifact, the last audit verdict true) or failed
\* (after MAX_TOPIC_ATTEMPTS outer iterations at most).
C12_EndsAcceptedOrFailed ==
    ( /\ cmd = "generate"
      /\ validate(settings) = << >>
      /\ pc \in Terminal
      /\ exc \notin CollaboratorRaised )
    => \/ /\ pc = "accepted"
          /\ Cardinality(Artifacts(disk)) = 1
          /\ iter_calls["audit"] = 1
       \/ /\ pc = "failed"
          /\ topic_attempt <= MAX_TOPIC_ATTEMPTS

\* C13: an outer iteration that ends accepted after k - 1 rejections by the
\* verifier (attempt = k - 1) made exactly k fetch and k verify calls and one
\* generate, score, render, compose and audit call; the clip it generated for
\* and composed is the k-th candidate fetched, the one the verifier approved.
C13_HappyPathCounts ==
    (pc = "accepted" \/ (pc = "post_loop" /\ ~NoGoodVideo))
    => LET k == attempt + 1 IN
       /\ k \in 1..INNER_ATTEMPTS
       /\ iter_calls["fetch"] = k
       /\ iter_calls["verify"] = k
       /\ \A c \in { "generate", "score", "render", "compose", "audit" } :
             iter_calls[c] = 1
       /\ candidate.n = k
       /\ video_clip = candidate
       /\ result.approved
       /\ fact.set /\ fact.about = video_clip.id

\* accepted in the first outer iteration with the last of the inner attempts
C13_Witness ==
    pc = "accepted" /\ topic_attempt = 0 /\ attempt = INNER_ATTEMPTS - 1

\* C14: an outer iteration whose independent score is below the threshold
\* ends there, without music selection, render, compose or audit; every outer
\* iteration starts with no verified clip and fetches before it generates;
\* and a run accepted in its second iteration after one gate rejection has
\* made 2 generate and 2 score calls and 1 render, compose and audit call.
C14_QualityGateRestart ==
    /\ (iter_calls["score"] = 1 /\ independent_score < MIN_INTEREST_SCORE)
          => /\ pc \in { "outer", "post_loop", "failed" }
             /\ pc = "outer" \/ topic_attempt = MAX_TOPIC_ATTEMPTS
             /\ last_outcome = "rejected-quality"
             /\ \A c \in { "music", "render", "compose", "audit" } : iter_calls[c] = 0
    /\ (pc = "inner" /\ iter_calls["fetch"] = 0)
          => /\ video_clip = NoClip
             /\ \A c \in Collaborators : iter_calls[c] = 0
    /\ pc \in { "generate", "score", "music", "render", "compose", "audit" }
          => /\ iter_calls["fetch"] >= 1
             /\ iter_calls["verify"] = iter_calls["fetch"]
    /\ ( /\ pc = "accepted"
         /\ topic_attempt = 1
         /\ audits = << TRUE >>
         /\ calls["score"] = 2 )
          => /\ calls["generate"] = 2
             /\ calls["render"] = 1
             /\ calls["compose"] = 1
             /\ calls["audit"] = 1
             /\ calls["fetch"] >= 2
             /\ calls["verify"] >= 2

\* accepted in the second outer iteration, the first one stopped at the gate
C14_Witness ==
    /\ pc = "accepted"
    /\ topic_attempt = 1
    /\ audits = << TRUE >>
    /\ calls["score"] = 2

\* C15 (as claimed): a fetch_viral_video call that returns a clip whose file
\* was already in the cache has made no request and leaves the cache as it was.
C15_CachedFetchIsLocal ==
    [][ ( /\ pc = "searched"
          /\ pc' = "verify"
          /\ Cached(video_cache, candidate'.id) )
        => /\ fetch_io = {}
           /\ video_cache' = video_cache ]_vars

\* C16 (as claimed): what score_fact_independently returns for the fact about
\* to be scored does not change when the fact's self-reported score or the
\* asset it is about are changed (same text, same answer of the scorer).
C16_ScoreDependsOnTextOnly ==
    pc = "score"
    => \A answer \in ScoreAnswers, s \in Scores \cup { DEFAULT_SCORE }, a \in AssetIds :
          score_fact_independently(
              [ fact EXCEPT !.interest_score = s, !.about = a ], answer)
          = score_fact_independently(fact, answer)

\* C17 (amended): with a topic requested, every fetch tries that topic and
\* no other: the for loop of every fetch call runs over [topic], the query is
\* that topic or a related term derived from it, and no catalogue topic is
\* searched or marked used.
C17_RequestedTopicOnly ==
    topic # NoTopic
    => /\ topics_to_try \subseteq { topic }
       /\ search_term \in { NoTopic, topic }
       /\ actual_search.topic \in { NoTopic, topic }
       /\ iter_topics \subseteq { topic }
       /\ used_topics \subseteq { topic }

\* a search under the requested topic in a later outer iteration
C17_Witness ==
    topic # NoTopic /\ pc = "searched" /\ topic_attempt >= 1 /\ attempt >= 1

\* C17 (as claimed): with a topic requested, the search term of every asset
\* search is exactly that topic.
C17_SearchesExactTopic ==
    topic # NoTopic => ~actual_search.related

\* C18: with no topic requested, every step leaves the topics still to try,
\* the topic being tried and the used set inside the catalogue, with the
\* topics still to try and the topic just searched outside the used set; the
\* used set of a fetcher loses members only by being emptied when it held the
\* whole catalogue, and the draw that follows is from the whole catalogue
\* (the next invocation of a batch builds a new fetcher).
C18_DrawsUnusedCatalogueTopics ==
    [][ topic = NoTopic
        => /\ topics_to_try' \subseteq VIRAL_TOPICS
           /\ search_term' \in VIRAL_TOPICS \cup { NoTopic }
           /\ iter_topics' \subseteq VIRAL_TOPICS
           /\ used_topics' \subseteq VIRAL_TOPICS
           /\ topics_to_try' \cap used_topics' = {}
           /\ pc' = "searched" => search_term' \notin used_topics'
           /\ (invocation' = invocation /\ ~(used_topics \subseteq used_topics'))
                 => /\ used_topics = VIRAL_TOPICS
                    /\ used_topics' = {}
                    /\ topics_to_try' = VIRAL_TOPICS ]_vars

\* a fetch has just drawn from the whole catalogue after the used set was emptied
C18_Witness ==
    /\ topic = NoTopic
    /\ pc = "fetch_loop"
    /\ used_topics = {}
    /\ topics_to_try = VIRAL_TOPICS
    /\ calls["fetch"] >= 2

\* C19 (as claimed): a topic is in the used set only if a candidate fetched
\* under it was approved by the verifier; so while nothing has been approved
\* the used set is empty.
C19_UsedOnlyIfApproved ==
    approvals = 0 => used_topics = {}

\* C20 (as claimed): all fetch calls of the inner loop of one outer iteration
\* search under the same topic.
C20_SameTopicWithinIteration ==
    Cardinality(iter_topics) <= 1

\* C21 (as claimed): the report of a failure that came after some candidate
\* was approved (the quality gate or the final audit kept rejecting) differs
\* from the report of the failure where the verifier rejected everything,
\* which is the single line FailureMessage.
C21_FailureNamesItsCause ==
    pc = "failed" => /\ (approvals = 0 => reported = << FailureMessage >>)
                     /\ (approvals > 0 => reported # << FailureMessage >>)

\* C22 (as claimed): once the invocation has ended no temporary text-overlay
\* image is left on disk, whichever way it ended; stated for the invocations
\* in which the renderer wrote its image without failing.
C22_NoTempImageAfterEnd ==
    pc \in Terminal /\ fault # "render:error" => TempImages(disk) = {}

\* the failures next_chunk raised that _resumable_upload answers with a retry:
\* HTTP 500/502/503/504 and transport/IO errors
C23_RetriableFailure(o) ==
    \/ o.kind = "http" /\ o.status \in { 500, 502, 503, 504 }
    \/ o.kind = "transport"

\* C23: during an upload only retriable failures are followed by another
\* chunk attempt; at most MAX_RETRIES retries are made over the whole upload;
\* the k-th retry comes after a wait of 2^k seconds; and the
\* (MAX_RETRIES + 1)-th retriable failure ends the upload with an unsuccessful
\* result.
C23_BoundedBackoffRetries ==
    LET pending == pc = "backoff" \/ (pc = "returned" /\ ~upload_result.success
                                                     /\ failures # << >>)
    IN
    /\ retry = Len(failures) - (IF pending /\ ~C23_RetriableFailure(failures[Len(failures)])
                                THEN 1 ELSE 0)
    /\ Len(failures) <= MAX_RETRIES + 1
    /\ Len(slept) <= MAX_RETRIES
    /\ \A k \in 1..Len(slept) : slept[k] = 2 ^ k
    /\ chunk_calls = sent + Len(failures)
    /\ Len(slept) = Len(failures) - (IF pending THEN 1 ELSE 0)
    /\ \A k \in 1..Len(failures) :
          (k < Len(failures) \/ pc # "returned") => C23_RetriableFailure(failures[k])
    /\ Len(failures) = MAX_RETRIES + 1
          => /\ pc = "returned"
             /\ upload_result.set /\ ~upload_result.success

\* the sixth retriable failure has ended an upload that had made progress, after
\* five waits
C23_Witness ==
    /\ pc = "returned"
    /\ Len(failures) = MAX_RETRIES + 1
    /\ C23_RetriableFailure(failures[MAX_RETRIES + 1])
    /\ slept = << 2, 4, 8, 16, 32 >>
    /\ sent >= 1
    /\ ~upload_result.success

\* C24: a failure that is not retriable ends the upload at once: no wait and no
\* chunk attempt follows it, and upload returns an unsuccessful UploadResult
\* that carries the status and the error detail of the HttpError; the upload
\* leaves the local file as it was.
C24_NonRetriableEndsUpload ==
    /\ total_chunks > 0 => disk = { UploadedFile }
    /\ total_chunks = 0 => disk = {}
    /\ failures # << >> /\ ~C23_RetriableFailure(failures[Len(failures)])
          => /\ pc = "returned"
             /\ Len(slept) = Len(failures) - 1
             /\ chunk_calls = sent + Len(failures)
             /\ upload_result.set /\ ~upload_result.success
             /\ failures[Len(failures)].kind = "http"
                   => /\ upload_result.status = failures[Len(failures)].status
                      /\ upload_result.detail = "api_error"

\* HTTP 403 has ended an upload that had made progress and had retried once
C24_Witness ==
    /\ pc = "returned"
    /\ failures # << >>
    /\ failures[Len(failures)] = [ kind |-> "http", status |-> 403 ]
    /\ upload_result = [ set |-> TRUE, success |-> FALSE, status |-> 403,
                         detail |-> "api_error" ]
    /\ sent >= 1
    /\ Len(slept) >= 1
    /\ disk = { UploadedFile }

\* C25 (as claimed): a batch with --count N invokes the single-video flow
\* exactly N times: once the batch command has ended, N invocations of
\* generate have been started; stated for the batches in which no fetch,
\* verifier or language-model call raised.
C25_BatchInvokesCountTimes ==
    ( /\ cmd = "batch"
      /\ pc \in { "batch_complete", "crashed" }
      /\ exc \in { "none", "MusicManager" } )
        => (IF pc = "crashed" THEN invocation + 1 ELSE invocation) = count

\* C26 (as claimed): auto without --upload and with a valid configuration
\* goes into the pipeline without the upload credentials being looked at:
\* it is never at the credentials check and never ends there.
C26_NoCredentialCheckWithoutUpload ==
    cmd = "auto" /\ ~upload /\ validate(settings) = << >>
        => pc # "check_upload" /\ exc # "no_upload"

\* C28 (as claimed): when Settings.validate returns no errors, no fetch ends
\* with "No video API configured".
C28_ValidConfigHasAssetClient ==
    validate(settings) = << >> => fault # "fetch:no_api"

\* C29 (as claimed): a download that failed part-way leaves no file that a
\* later fetch takes for a cache hit: the file behind every candidate a fetch
\* has returned was downloaded completely.
C29_CacheHoldsCompleteDownloads ==
    candidate # NoClip => [ id |-> candidate.id, whole |-> TRUE ] \in video_cache

\* C27: in every outer iteration, generation and everything after it run only
\* with a candidate the verifier approved in that same iteration: the verified
\* clip is the last candidate fetched in this iteration and its verification is
\* the last one made in it; the generator is given that clip's description;
\* the trim point is the one computed from that clip's verification; and the
\* composer is given that clip and that trim point.
C27_DownstreamUsesApprovedCandidate ==
    /\ pc \in { "generate", "score", "music", "render", "compose", "audit" }
          => /\ video_clip # NoClip
             /\ video_clip = candidate
             /\ video_clip.n = iter_calls["fetch"]
             /\ iter_calls["verify"] = iter_calls["fetch"]
             /\ vision_result = result
             /\ vision_result.set /\ vision_result.approved
             /\ start_time = Max(0, vision_result.video_duration * vision_result.best_frame
                                       - (NUM_FRAMES + 1))
    /\ pc \in { "score", "music", "render", "compose", "audit" }
          => fact.set /\ fact.about = video_clip.id
    /\ composed_from.set
          => /\ composed_from.clip = video_clip
             /\ vision_result.approved
             /\ composed_from.start_time
                   = Max(0, vision_result.video_duration * vision_result.best_frame
                              - (NUM_FRAMES + 1))

\* the second outer iteration has composed its video from the second candidate
\* it fetched, trimmed at the frame its verification named, after the audit
\* rejected the video of the first iteration
C27_Witness ==
    /\ pc = "audit"
    /\ topic_attempt = 1
    /\ audits = << FALSE >>
    /\ video_clip.n = 2
    /\ vision_result.best_frame = 1
    /\ composed_from = [ set |-> TRUE, clip |-> video_clip, start_time |-> 1 ]

\* C30 (as claimed): for every good subject there is a description the filter
\* accepts that contains it; stated for the good subjects the description
\* being filtered contains, over the descriptions of up to MaxWords words.
C30_GoodSubjectsAcceptable ==
    filtered.set
        => \A subject \in GOOD_SUBJECT_WORDS :
              In(subject, lower(filtered.description))
                 => \E url \in Slugs :
                       /\ In(subject, lower(extract_description_from_url(url)))
                       /\ has_good_description([ url |-> url, duration |-> duration ]).is_good

====
